---- MODULE Spec2Model ----
(***************************************************************************)
(* NEXO RRHH (src/main.py): session authentication, role authorization and *)
(* the upload lifecycle of the local HR portal, as a state machine.        *)
(*                                                                         *)
(* Text (usernames, file names, stored names) is a sequence of one-letter  *)
(* strings, so that strip(), Path.suffix, lower() and secure_filename()    *)
(* are computed letter by letter as the code computes them.                *)
(***************************************************************************)
EXTENDS Integers, Sequences, FiniteSets, TLC

(***************************************************************************)
(* Bounds of the model.                                                    *)
(***************************************************************************)
MaxSessions == 2
MaxUsers == 2
MaxUploads == 2
MaxClock == 1
MaxPending == 1

(***************************************************************************)
(* Text helpers.                                                           *)
(***************************************************************************)
Upper == <<"R", "X", "L", "S">>
LowerOf == <<"r", "x", "l", "s">>

\* str.lower() on one letter
LowerChar(c) ==
  IF \E i \in 1..Len(Upper) : Upper[i] = c
  THEN LowerOf[CHOOSE i \in 1..Len(Upper) : Upper[i] = c]
  ELSE c

\* str.lower()
Lower(s) == [i \in 1..Len(s) |-> LowerChar(s[i])]

IsSpace(c) == c = " "

RECURSIVE LStrip(_)
LStrip(s) == IF s # <<>> /\ IsSpace(Head(s)) THEN LStrip(Tail(s)) ELSE s

RECURSIVE RStrip(_)
RStrip(s) ==
  IF s # <<>> /\ IsSpace(s[Len(s)]) THEN RStrip(SubSeq(s, 1, Len(s) - 1)) ELSE s

\* str.strip()
Strip(s) == RStrip(LStrip(s))

\* the index of the last occurrence of c in s, 0 when there is none (rfind + 1)
RFind(s, c) ==
  IF \E i \in 1..Len(s) : s[i] = c
  THEN CHOOSE i \in 1..Len(s) : s[i] = c /\ \A j \in (i + 1)..Len(s) : s[j] # c
  ELSE 0

\* the path separators of the platform the server runs on
Seps(os) == IF os = "nt" THEN {"/", "\\"} ELSE {"/"}

\* s cut at the separators: the sequence of its components, empty ones included
RECURSIVE SplitAt(_, _, _)
SplitAt(s, seps, cur) ==
  IF s = <<>> THEN <<cur>>
  ELSE IF Head(s) \in seps THEN <<cur>> \o SplitAt(Tail(s), seps, <<>>)
  ELSE SplitAt(Tail(s), seps, Append(cur, Head(s)))

DotDot == <<".", ".">>
Dot == <<".">>

\* the components of a relative path, without the empty and "." ones
Components(s, seps) ==
  SelectSeq(SplitAt(s, seps, <<>>), LAMBDA c : c # <<>> /\ c # Dot)

\* pathlib: Path(filename).name, the last component
PathName(s, os) ==
  LET cs == Components(s, Seps(os)) IN IF cs = <<>> THEN <<>> ELSE cs[Len(cs)]

\* pathlib: Path(filename).suffix
Suffix(s, os) ==
  LET name == PathName(s, os)
      i == RFind(name, ".")
  IN IF 1 < i /\ i < Len(name) THEN SubSeq(name, i, Len(name)) ELSE <<>>

\* "_".join(filename.split()): the words of s joined by underscores
RECURSIVE JoinWords(_)
JoinWords(ws) ==
  IF ws = <<>> THEN <<>>
  ELSE IF Len(ws) = 1 THEN ws[1]
  ELSE ws[1] \o <<"_">> \o JoinWords(Tail(ws))

\* the letters _filename_ascii_strip_re keeps: [A-Za-z0-9_.-]
Digits == <<"0", "1", "2", "3", "4", "5", "6", "7", "8", "9">>
SafeChars ==
  {"a", "b", "d", "e", "r", "t", "x", "l", "s", "R", "X", "L", "S", "_", ".", "-"}
    \cup {Digits[i] : i \in 1..Len(Digits)}

RECURSIVE LStripChars(_, _)
LStripChars(s, cs) ==
  IF s # <<>> /\ Head(s) \in cs THEN LStripChars(Tail(s), cs) ELSE s

RECURSIVE RStripChars(_, _)
RStripChars(s, cs) ==
  IF s # <<>> /\ s[Len(s)] \in cs
  THEN RStripChars(SubSeq(s, 1, Len(s) - 1), cs)
  ELSE s

\* werkzeug.utils.secure_filename as upload() calls it: separators become
\* spaces, whitespace runs become "_", every letter outside [A-Za-z0-9_.-]
\* is dropped, leading and trailing "." and "_" are stripped.  (Its NFKD
\* folding and its renaming of Windows device names act on no name drawn
\* here: the alphabet is ASCII and holds no CON, NUL, ...)
SecureFilename(fn, os) ==
  LET spaced == [i \in 1..Len(fn) |-> IF fn[i] \in Seps(os) THEN " " ELSE fn[i]]
      words == SelectSeq(SplitAt(spaced, {" "}, <<>>), LAMBDA w : w # <<>>)
      kept == SelectSeq(JoinWords(words), LAMBDA c : c \in SafeChars)
  IN RStripChars(LStripChars(kept, {".", "_"}), {".", "_"})

\* datetime.now().strftime("%Y%m%d_%H%M%S"): one fixed-width text per second
Strftime(t) == <<Digits[t + 1]>>

\* stored = f"{stamp}__{safe}"
StoredName(t, fn, os) == Strftime(t) \o <<"_", "_">> \o SecureFilename(fn, os)

(***************************************************************************)
(* Paths.  A path is taken relative to UPLOADS_DIR: `up` counts the ".."   *)
(* steps that leave it, `comps` are the components below that point.       *)
(***************************************************************************)
RECURSIVE NormComps(_, _, _)
NormComps(cs, up, acc) ==
  IF cs = <<>> THEN [up |-> up, comps |-> acc]
  ELSE IF Head(cs) = DotDot
       THEN IF acc = <<>> THEN NormComps(Tail(cs), up + 1, acc)
            ELSE NormComps(Tail(cs), up, SubSeq(acc, 1, Len(acc) - 1))
  ELSE NormComps(Tail(cs), up, Append(acc, Head(cs)))

\* what UPLOADS_DIR / name denotes on the server's platform
Resolve(name, os) == NormComps(Components(name, Seps(os)), 0, <<>>)

\* strictly inside the storage root
Inside(p) == p.up = 0 /\ p.comps # <<>>

Rejected == [up |-> 0 - 1, comps |-> <<>>]

\* a join that resolves the name without looking at it
SafeJoinUnchecked(name, os) == Resolve(name, os)

\* werkzeug.security.safe_join(UPLOADS_DIR, name), which send_from_directory
\* applies: None (here Rejected) for a name that is absolute, holds the
\* platform's other separator, or whose posix normal form is ".." or
\* starts with "../"
SafeJoin(name, os) ==
  LET norm == NormComps(Components(name, {"/"}), 0, <<>>)
  IN IF \/ (os = "nt" /\ \E i \in 1..Len(name) : name[i] = "\\")
        \/ (name # <<>> /\ name[1] = "/")
        \/ norm.up > 0
     THEN Rejected
     ELSE Resolve(name, os)

(***************************************************************************)
(* Configuration and inputs.                                               *)
(***************************************************************************)
ALLOWED_EXT == {<<".", "x", "l", "s", "x">>, <<".", "x", "l", "s">>}
ROLES == {"SUPERADMIN", "ADMIN", "RRHH", "LECTOR"}
RosterRoles == {"SUPERADMIN", "ADMIN"}

Sessions == 1..MaxSessions
Platforms == {"posix", "nt"}

Admin == <<"a", "d">>
Bob == <<"b", "o">>
ProvisionNames == {Bob}
LoginNames == {Admin, <<" ">> \o Admin \o <<" ">>, Bob, <<"x">>}
Passwords == {"admin123", "bobpw", "wrong"}
PasswordOf(name) == IF name = Admin THEN "admin123" ELSE "bobpw"

\* generate_password_hash / check_password_hash
GeneratePasswordHash(pw) == <<"hash", pw>>
CheckPasswordHash(h, pw) == h = GeneratePasswordHash(pw)

NoFile == [filename |-> <<>>, content |-> "none"]
Contents == {"A", "B"}
XlsxName == <<"r", ".", "x", "l", "s", "x">>
UploadNames ==
  { XlsxName,
    <<"R", ".", "X", "L", "S">>,
    <<"a", "/", ".", ".", "/", ".", ".", "/", "r", ".", "x", "l", "s">>,
    <<"r", ".", "t", "x", "t">>,
    <<"r", ".", "x", "l", "s", "x", ".", "e", "x", "e">>,
    <<".", "x", "l", "s">> }

\* DB_PATH = DATA_DIR / "nexo_rrhh.db", one level above UPLOADS_DIR
DbFile == <<"d", "b">>
DbPath == [up |-> 1, comps |-> <<DbFile>>]
RequestNames ==
  { DotDot,
    <<".", ".", "/", "d", "b">>,
    <<".", ".", "\\", "d", "b">>,
    <<"d", "b">> }

None == 0

VARIABLES os_name, now, users, seq_users, session, uploads, files, pending, last

vars == <<os_name, now, users, seq_users, session, uploads, files, pending, last>>

NoPath == [up |-> 0, comps |-> <<>>]

Resp(route, s, status, flash, user, arg, served) ==
  [route |-> route, sess |-> s, status |-> status, flash |-> flash,
   user |-> user, arg |-> arg, served |-> served]

NoResp == Resp("none", 0, "none", "", None, <<>>, NoPath)

UserRow(name, pw, role) ==
  [username |-> name, pass_hash |-> GeneratePasswordHash(pw), role |-> role,
   is_active |-> TRUE]

\* init_db: the bootstrap SUPERADMIN, inserted iff the users table is empty
InitDb(us, seq) ==
  IF DOMAIN us = {}
  THEN (seq + 1) :> UserRow(Admin, "admin123", "SUPERADMIN")
  ELSE us

Init ==
  /\ os_name \in Platforms
  /\ now = 0
  /\ users = InitDb(<<>>, 0)
  /\ seq_users = 1
  /\ session = [s \in Sessions |-> None]
  /\ uploads = <<>>
  /\ files = DbPath :> "db"
  /\ pending = <<>>
  /\ last = NoResp

(***************************************************************************)
(* Auth helpers.                                                           *)
(***************************************************************************)
\* the lookup without AND is_active=1
FindById(us, uid) == IF uid \in DOMAIN us THEN uid ELSE None

\* SELECT * FROM users WHERE id=? AND is_active=1
FindActiveById(us, uid) ==
  IF uid \in DOMAIN us /\ us[uid].is_active THEN uid ELSE None

\* current_user(): the id of the live, active user of the session, or None
CurrentUser(s) ==
  IF session[s] = None THEN None ELSE FindActiveById(users, session[s])

\* SELECT * FROM users WHERE username=? AND is_active=1
FindActiveByUsername(us, name) ==
  IF \E i \in DOMAIN us : us[i].username = name /\ us[i].is_active
  THEN CHOOSE i \in DOMAIN us : us[i].username = name /\ us[i].is_active
  ELSE None

\* login_required: the wrapped view runs iff the session holds a uid
LoginRequiredPasses(s) == session[s] # None

\* a gate that only asks for a current user
RequireRolesAnyUser(u, roles) == u # None

\* require_roles(*roles): the wrapped view runs iff there is a current user
\* whose role is one of roles
RequireRolesPasses(u, roles) == u # None /\ users[u].role \in roles

(***************************************************************************)
(* Routes.                                                                 *)
(***************************************************************************)
\* GET /
Index(s) ==
  /\ last' = Resp("index", s,
                  IF session[s] # None THEN "redirect_dashboard" ELSE "redirect_login",
                  "", None, <<>>, NoPath)
  /\ UNCHANGED <<os_name, now, users, seq_users, session, uploads, files, pending>>

\* GET /login: render_page shows the current user
LoginGet(s) ==
  /\ last' = Resp("login", s, "page", "", CurrentUser(s), <<>>, NoPath)
  /\ UNCHANGED <<os_name, now, users, seq_users, session, uploads, files, pending>>

\* a login that does not compare the password
LoginAcceptsNoPassword(us, username, password) ==
  FindActiveByUsername(us, username) # None

\* whether login_post accepts the credentials
LoginAccepts(us, username, password) ==
  LET u == FindActiveByUsername(us, username)
  IN u # None /\ CheckPasswordHash(us[u].pass_hash, password)

\* a login that keeps the uid a session already holds
LoginSessionKeepsOld(sess, s, us, username, password) ==
  IF LoginAccepts(us, username, password) /\ sess[s] = None
  THEN [sess EXCEPT ![s] = FindActiveByUsername(us, username)]
  ELSE sess

\* the session after login_post
LoginSession(sess, s, us, username, password) ==
  IF LoginAccepts(us, username, password)
  THEN [sess EXCEPT ![s] = FindActiveByUsername(us, username)]
  ELSE sess

\* POST /login
LoginPost(s, rawname, password) ==
  LET username == Strip(rawname)
  IN /\ session' = LoginSession(session, s, users, username, password)
     /\ last' = IF LoginAccepts(users, username, password)
                THEN Resp("login_post", s, "redirect_dashboard", "ok",
                          FindActiveByUsername(users, username),
                          <<rawname, password>>, NoPath)
                ELSE Resp("login_post", s, "redirect_login", "invalid_credentials",
                          None, <<rawname, password>>, NoPath)
     /\ UNCHANGED <<os_name, now, users, seq_users, uploads, files, pending>>

\* GET /logout: session.clear()
Logout(s) ==
  /\ session' = [session EXCEPT ![s] = None]
  /\ last' = Resp("logout", s, "redirect_login", "", None, <<>>, NoPath)
  /\ UNCHANGED <<os_name, now, users, seq_users, uploads, files, pending>>

\* GET /dashboard: u["role"] raises TypeError when current_user() is None
Dashboard(s) ==
  LET u == CurrentUser(s)
  IN /\ last' = IF ~LoginRequiredPasses(s)
                THEN Resp("dashboard", s, "redirect_login", "", None, <<>>, NoPath)
                ELSE IF u = None
                THEN Resp("dashboard", s, "error500", "", None, <<>>, NoPath)
                ELSE Resp("dashboard", s, "page", "", u, <<>>, NoPath)
     /\ UNCHANGED <<os_name, now, users, seq_users, session, uploads, files, pending>>

\* GET /users
Users(s) ==
  LET u == CurrentUser(s)
  IN /\ last' = IF ~LoginRequiredPasses(s)
                THEN Resp("users", s, "redirect_login", "", None, <<>>, NoPath)
                ELSE IF ~RequireRolesPasses(u, RosterRoles)
                THEN Resp("users", s, "redirect_dashboard", "denied", u, <<>>, NoPath)
                ELSE Resp("users", s, "roster", "", u, <<>>, NoPath)
     /\ UNCHANGED <<os_name, now, users, seq_users, session, uploads, files, pending>>

\* a validation without the extension check
ValidateNoExtCheck(f, os) ==
  IF f.filename = <<>> THEN "no_file" ELSE "accepted"

\* upload(), lines 454-462: the validation outcome of the submitted file
Validate(f, os) ==
  IF f = NoFile \/ f.filename = <<>> THEN "no_file"
  ELSE IF Lower(Suffix(f.filename, os)) \notin ALLOWED_EXT THEN "unsupported"
  ELSE "accepted"

\* a save that writes nothing
SaveFileLost(fs, p, content) == fs

\* f.save(path): the storage after writing content at path; the write
\* needs the directory of path to exist, and the upload tree has no
\* subdirectories
CanSave(p) == Len(p.comps) = 1 /\ p.up <= 1
SaveFile(fs, p, content) ==
  IF p \in DOMAIN fs THEN [fs EXCEPT ![p] = content] ELSE fs @@ (p :> content)

\* POST /upload up to f.save(path) (lines 453-469)
UploadBegin(s, f) ==
  LET u == CurrentUser(s)
      v == Validate(f, os_name)
      stored == StoredName(now, f.filename, os_name)
      path == Resolve(stored, os_name)
  IN /\ (LoginRequiredPasses(s) /\ v = "accepted" /\ CanSave(path))
          => /\ Len(pending) < MaxPending
             /\ Len(uploads) + Len(pending) < MaxUploads
             /\ path \in DOMAIN files \/ Cardinality(DOMAIN files \ {DbPath}) < MaxUploads
     /\ IF ~LoginRequiredPasses(s)
        THEN /\ last' = Resp("upload", s, "redirect_login", "", None, f.filename, NoPath)
             /\ UNCHANGED <<files, pending>>
        ELSE IF v # "accepted"
        THEN /\ last' = Resp("upload", s, "redirect_dashboard", v, u, f.filename, NoPath)
             /\ UNCHANGED <<files, pending>>
        ELSE IF ~CanSave(path)
        THEN /\ last' = Resp("upload", s, "error500", "", u, f.filename, NoPath)
             /\ UNCHANGED <<files, pending>>
        ELSE /\ files' = SaveFile(files, path, f.content)
             /\ pending' = Append(pending,
                   [sess |-> s, user |-> u, original |-> f.filename,
                    stored |-> stored, content |-> f.content])
             /\ last' = Resp("upload", s, "saved", "", u, f.filename, path)
     /\ UNCHANGED <<os_name, now, users, seq_users, session, uploads>>

Remove(q, i) == SubSeq(q, 1, i - 1) \o SubSeq(q, i + 1, Len(q))

\* SQLite without PRAGMA foreign_keys=ON checks nothing
ForeignKeyOff(us, uid) == TRUE

\* INSERT INTO uploads with PRAGMA foreign_keys=ON: the row is inserted iff
\* uploaded_by references a users row, else sqlite3.IntegrityError
ForeignKeyOk(us, uid) == uid \in DOMAIN us

\* POST /upload from the INSERT on (lines 471-480); int(u["id"]) raises
\* TypeError when current_user() was None
UploadEnd(i) ==
  LET p == pending[i]
      row == [id |-> Len(uploads) + 1, original_name |-> p.original,
              stored_name |-> p.stored, uploaded_by |-> p.user]
  IN /\ pending' = Remove(pending, i)
     /\ IF p.user = None
        THEN /\ uploads' = uploads
             /\ last' = Resp("upload", p.sess, "error500", "", None, p.original, NoPath)
        ELSE IF ~ForeignKeyOk(users, p.user)
        THEN /\ uploads' = uploads
             /\ last' = Resp("upload", p.sess, "error500", "foreign_key",
                             p.user, p.original, NoPath)
        ELSE /\ uploads' = Append(uploads, row)
             /\ last' = Resp("upload", p.sess, "redirect_dashboard", "ok",
                             p.user, p.original, Resolve(p.stored, os_name))
     /\ UNCHANGED <<os_name, now, users, seq_users, session, files>>

\* GET /uploads/<name>: send_from_directory(UPLOADS_DIR, name)
Download(s, name) ==
  LET p == SafeJoin(name, os_name)
  IN /\ \A i \in 1..Len(name) : name[i] # "/"
     /\ last' = IF ~LoginRequiredPasses(s)
                THEN Resp("download", s, "redirect_login", "", None, name, NoPath)
                ELSE IF p = Rejected \/ p \notin DOMAIN files
                THEN Resp("download", s, "notfound", "", CurrentUser(s), name, NoPath)
                ELSE Resp("download", s, "file", "", CurrentUser(s), name, p)
     /\ UNCHANGED <<os_name, now, users, seq_users, session, uploads, files, pending>>

\* a URL below /uploads/ that holds a further "/" matches no route
NoRoute(s, name) ==
  /\ \E i \in 1..Len(name) : name[i] = "/"
  /\ last' = Resp("no_route", s, "notfound", "", None, name, NoPath)
  /\ UNCHANGED <<os_name, now, users, seq_users, session, uploads, files, pending>>

(***************************************************************************)
(* The environment: the clock, the provisioning of accounts directly in    *)
(* the users table (the program has no route that writes it), and the      *)
(* restart of the server process.                                          *)
(***************************************************************************)
Tick ==
  /\ now < MaxClock
  /\ now' = now + 1
  /\ last' = NoResp
  /\ UNCHANGED <<os_name, users, seq_users, session, uploads, files, pending>>

\* INSERT INTO users: username is UNIQUE, id is AUTOINCREMENT
ProvisionUser(name, role) ==
  /\ seq_users < MaxUsers
  /\ \A i \in DOMAIN users : users[i].username # name
  /\ users' = users @@ ((seq_users + 1) :> UserRow(name, PasswordOf(name), role))
  /\ seq_users' = seq_users + 1
  /\ last' = NoResp
  /\ UNCHANGED <<os_name, now, session, uploads, files, pending>>

\* UPDATE users SET is_active=? WHERE id=?
SetActive(uid, flag) ==
  /\ uid \in DOMAIN users
  /\ users[uid].is_active # flag
  /\ users' = [users EXCEPT ![uid].is_active = flag]
  /\ last' = NoResp
  /\ UNCHANGED <<os_name, now, seq_users, session, uploads, files, pending>>

\* DELETE FROM users WHERE id=?: refused while an uploads row references
\* the user (FOREIGN KEY(uploaded_by) REFERENCES users(id))
DeleteUser(uid) ==
  /\ uid \in DOMAIN users
  /\ \A k \in 1..Len(uploads) : uploads[k].uploaded_by # uid
  /\ users' = [i \in DOMAIN users \ {uid} |-> users[i]]
  /\ last' = NoResp
  /\ UNCHANGED <<os_name, now, seq_users, session, uploads, files, pending>>

\* the process dies (also between f.save and the INSERT of a request in
\* flight) and starts again: init_db() runs at import
Restart ==
  /\ (DOMAIN users = {}) => seq_users < MaxUsers
  /\ pending' = <<>>
  /\ users' = InitDb(users, seq_users)
  /\ seq_users' = IF DOMAIN users = {} THEN seq_users + 1 ELSE seq_users
  /\ last' = NoResp
  /\ UNCHANGED <<os_name, now, session, uploads, files>>

StoredNames == {p.comps[1] : p \in {q \in DOMAIN files : Inside(q)}}

(***************************************************************************)
(* Specifications.  The three share Init and the actions above and differ  *)
(* in the requests and account changes they draw.                          *)
(*   SpecAuth:  every session, every login input, every role.              *)
(*   SpecStore: one browser session uploading one file name, with the      *)
(*              account it is bound to deactivated or deleted under it.    *)
(*   SpecNames: one browser session, every upload and download name.       *)
(***************************************************************************)
NextAuth ==
  \/ \E s \in Sessions : Index(s)
  \/ \E s \in Sessions : LoginGet(s)
  \/ \E s \in Sessions, n \in LoginNames, pw \in Passwords : LoginPost(s, n, pw)
  \/ \E s \in Sessions : Logout(s)
  \/ \E s \in Sessions : Dashboard(s)
  \/ \E s \in Sessions : Users(s)
  \/ \E n \in ProvisionNames, r \in ROLES : ProvisionUser(n, r)
  \/ \E u \in 1..MaxUsers, b \in BOOLEAN : SetActive(u, b)
  \/ \E u \in 1..MaxUsers : DeleteUser(u)
  \/ Restart

SpecAuth == Init /\ [][NextAuth]_vars

StoreFiles ==
  {NoFile} \cup [filename : {XlsxName, <<"r", ".", "t", "x", "t">>}, content : Contents]

NextStore ==
  \/ LoginPost(1, Admin, "admin123")
  \/ Logout(1)
  \/ Dashboard(1)
  \/ Users(1)
  \/ \E f \in StoreFiles : UploadBegin(1, f)
  \/ \E i \in 1..Len(pending) : UploadEnd(i)
  \/ \E n \in StoredNames : Download(1, n)
  \/ Tick
  \/ \E u \in 1..MaxUsers : SetActive(u, FALSE)
  \/ \E u \in 1..MaxUsers : DeleteUser(u)
  \/ Restart

SpecStore == Init /\ [][NextStore]_vars

NameFiles == {NoFile} \cup [filename : UploadNames, content : {"A"}]

NextNames ==
  \/ LoginPost(1, Admin, "admin123")
  \/ Logout(1)
  \/ \E f \in NameFiles : UploadBegin(1, f)
  \/ \E i \in 1..Len(pending) : UploadEnd(i)
  \/ \E n \in RequestNames \cup StoredNames : Download(1, n)
  \/ \E n \in RequestNames : NoRoute(1, n)
  \/ Tick
  \/ Restart

SpecNames == Init /\ [][NextNames]_vars

(***************************************************************************)
(* Properties.                                                             *)
(***************************************************************************)
AuthRoutes == {"dashboard", "upload", "download", "users"}

\* the response is the final answer of a request to a route behind login_required
Answered == last.route \in AuthRoutes /\ last.status # "saved"

\* C1: every route that requires authentication answers a caller without a
\* current user (no uid in the session, or a uid whose user is deactivated
\* or gone) with a redirect to the login page, never with an error.
C1_AnonymousRedirectedToLogin ==
  (Answered /\ last.user = None) => last.status = "redirect_login"

\* the login input names no user, a wrong password, or an inactive user
UnknownUsername(n) == \A i \in DOMAIN users : users[i].username # Strip(n)
WrongPassword(n, pw) == pw # PasswordOf(Strip(n))
InactiveUser(n) ==
  \E i \in DOMAIN users : users[i].username = Strip(n) /\ ~users[i].is_active
BadLogin(n, pw) == UnknownUsername(n) \/ WrongPassword(n, pw) \/ InactiveUser(n)

FailedLogin == last.route = "login_post" /\ last.status = "redirect_login"

\* C2 as stated: after a failed POST /login the session has no current user.
C2_FailedLoginLeavesAnonymous ==
  FailedLogin => CurrentUser(last.sess) = None

\* C2 as amended: a login with an unknown username, a wrong password or an
\* inactive user always fails with InvalidCredentials, and a failed login
\* leaves every session as it was (an Anonymous session stays Anonymous, a
\* bound session keeps its user).
C2_FailedLoginKeepsSession ==
  /\ [](last.route = "login_post" /\ BadLogin(last.arg[1], last.arg[2])
          => FailedLogin /\ last.flash = "invalid_credentials")
  /\ [][(last'.route = "login_post" /\ last'.status = "redirect_login")
          => /\ session' = session
             /\ (session[last'.sess] = None
                   => FindActiveById(users', session'[last'.sess]) = None)]_vars

C2_Witness ==
  /\ FailedLogin
  /\ InactiveUser(last.arg[1]) /\ ~WrongPassword(last.arg[1], last.arg[2])
  /\ \E s \in Sessions : s # last.sess /\ CurrentUser(s) # None

\* the session is bound to a user that exists and is inactive
BoundToInactive(s) ==
  session[s] # None /\ session[s] \in DOMAIN users /\ ~users[session[s]].is_active

\* C4: a session bound to a deactivated user has no current user on the
\* next request, without a logout: every response to it shows no user, and
\* neither the dashboard nor the roster is rendered for it.
C4_DeactivatedHasNoCurrentUser ==
  \A s \in Sessions :
    BoundToInactive(s) =>
      /\ CurrentUser(s) = None
      /\ (last.sess = s /\ last.route \in {"login", "dashboard", "users"})
           => (last.user = None /\ last.status \notin {"roster"}
               /\ (last.route = "dashboard" => last.status # "page"))

C4_Witness ==
  \E s \in Sessions :
    BoundToInactive(s) /\ last.sess = s /\ last.route = "login" /\ last.user = None

\* the id of the user named n, None when there is none
IdOf(n) ==
  IF \E i \in DOMAIN users : users[i].username = Strip(n)
  THEN CHOOSE i \in DOMAIN users : users[i].username = Strip(n)
  ELSE None

\* the session is bound to a user that exists and is active
BoundToActive(s) ==
  session[s] # None /\ session[s] \in DOMAIN users /\ users[session[s]].is_active

MayListUsers(s) ==
  /\ session[s] # None /\ session[s] \in DOMAIN users
  /\ users[session[s]].is_active
  /\ users[session[s]].role \in {"SUPERADMIN", "ADMIN"}

\* C7 as stated: GET /users serves the roster iff the current user exists
\* with role SUPERADMIN or ADMIN, and every other caller is redirected away
\* with a denial message.
C7_RosterOrDenialMessage ==
  last.route = "users" =>
    IF MayListUsers(last.sess)
    THEN last.status = "roster"
    ELSE last.status \in {"redirect_login", "redirect_dashboard"} /\ last.flash = "denied"

\* C7 as amended: the roster is served iff the current user exists with role
\* SUPERADMIN or ADMIN; a caller whose session holds a uid is otherwise
\* redirected to the dashboard with the denial message, and a caller whose
\* session holds no uid is redirected to the login page without one.
C7_RosterIffAllowedRole ==
  last.route = "users" =>
    IF MayListUsers(last.sess)
    THEN last.status = "roster"
    ELSE IF session[last.sess] = None
    THEN last.status = "redirect_login" /\ last.flash = ""
    ELSE last.status = "redirect_dashboard" /\ last.flash = "denied"

C7_Witness ==
  /\ last.route = "users" /\ last.status = "redirect_dashboard" /\ last.flash = "denied"
  /\ last.user # None /\ users[last.user].role = "LECTOR"

\* the files of the storage directory
Stored == {p \in DOMAIN files : Inside(p)}

\* C3: two accepted uploads never share a stored_name, so every uploads row
\* has an artifact of its own in the storage directory.
C3_DistinctStoredNames ==
  /\ \A i, j \in 1..Len(uploads) :
       i # j => uploads[i].stored_name # uploads[j].stored_name
  /\ Cardinality(Stored) >= Len(uploads)

\* C6: every uploads row names a file that exists in the storage directory,
\* also after the process died between f.save and the INSERT.
C6_RowsHaveFiles ==
  \A k \in 1..Len(uploads) :
    LET p == Resolve(uploads[k].stored_name, os_name)
    IN Inside(p) /\ p \in DOMAIN files

\* a crash has left a file without a row next to a recorded upload
C6_Witness ==
  /\ Len(uploads) >= 1
  /\ pending = <<>>
  /\ \E p \in Stored :
       \A k \in 1..Len(uploads) : Resolve(uploads[k].stored_name, os_name) # p

\* C9: every uploads row's uploaded_by is the id of a users row, and an
\* INSERT whose uploader id references no user fails and leaves the uploads
\* table as it was.
C9_UploaderExists ==
  /\ [](\A k \in 1..Len(uploads) : uploads[k].uploaded_by \in DOMAIN users)
  /\ [][\A i \in 1..Len(pending) :
          (UploadEnd(i) /\ pending[i].user # None /\ pending[i].user \notin DOMAIN users)
            => (uploads' = uploads /\ last'.status = "error500"
                /\ last'.flash = "foreign_key")]_vars

C9_Witness ==
  /\ last.route = "upload" /\ last.flash = "foreign_key"
  /\ last.user # None /\ last.user \notin DOMAIN users
  /\ Stored # {}

\* the text after the last "." of the file name, lower-cased ("" without one)
Extension(fn) ==
  LET i == RFind(fn, ".") IN IF i = 0 THEN <<>> ELSE Lower(SubSeq(fn, i, Len(fn)))

RejectedUpload ==
  /\ last.route = "upload" /\ last.status = "redirect_dashboard"
  /\ last.flash \in {"no_file", "unsupported"}

\* C8: an upload by a logged-in session with no file, an empty file name or
\* an extension other than .xlsx and .xls (compared case-insensitively) is
\* rejected with NoFileSelected or UnsupportedFormat, and a rejected upload
\* writes no file and inserts no row.
C8_RejectedUploadWritesNothing ==
  /\ [](last.route = "upload" /\ last.status # "redirect_login"
          => /\ last.arg = <<>> => RejectedUpload /\ last.flash = "no_file"
             /\ (last.arg # <<>> /\ Extension(last.arg) \notin ALLOWED_EXT)
                  => RejectedUpload /\ last.flash = "unsupported")
  /\ [][(last'.route = "upload" /\ last'.status = "redirect_dashboard"
         /\ last'.flash \in {"no_file", "unsupported"})
          => (files' = files /\ uploads' = uploads /\ pending' = pending)]_vars

C8_Witness ==
  /\ RejectedUpload /\ last.flash = "unsupported"
  /\ Extension(last.arg) = <<".", "e", "x", "e">>
  /\ Len(uploads) >= 1

\* the name holds a ".." component under either separator
HasTraversal(name) ==
  \E i \in 1..Len(SplitAt(name, {"/", "\\"}, <<>>)) :
    SplitAt(name, {"/", "\\"}, <<>>)[i] = DotDot

\* C10: a download whose name holds a traversal sequence is rejected, every
\* file a download returns lies strictly inside the storage root, and every
\* stored name of an upload (written, in flight or recorded) resolves
\* strictly inside the storage root.
C10_NoTraversal ==
  /\ (last.route \in {"download", "no_route"} /\ HasTraversal(last.arg))
       => last.status \in {"notfound", "redirect_login"}
  /\ (last.route = "download" /\ last.status = "file")
       => (Inside(last.served) /\ last.served \in DOMAIN files)
  /\ DOMAIN files \ {DbPath} = Stored
  /\ \A i \in 1..Len(pending) : Inside(Resolve(pending[i].stored, os_name))
  /\ \A k \in 1..Len(uploads) : Inside(Resolve(uploads[k].stored_name, os_name))

C10_Witness ==
  /\ last.route = "download" /\ last.status = "notfound"
  /\ session[last.sess] # None
  /\ HasTraversal(last.arg)
  /\ \E k \in 1..Len(uploads) : HasTraversal(uploads[k].original_name)

====
